---------------------------- MODULE Spec2Model ----------------------------
(***************************************************************************)
(* Trajectory Sandbox Tools plugin: the tool catalog, the parameter        *)
(* extraction from the host's execute(...args) convention, the proxy call  *)
(* to the fixture ("mock") server and the registration pass.               *)
(*                                                                         *)
(* Two plugin sources are modelled side by side:                           *)
(*   "index_ts"  src/extensions/trajectory-sandbox-tools/index.ts          *)
(*               (catalog-driven registration loop, v0.3.0)                *)
(*   "part_000"  src/unnamed/part_000                                      *)
(*               (one hand-written registration block per tool)            *)
(* Definitions that model part_000 carry the suffix _p0.                   *)
(***************************************************************************)
EXTENDS Integers, Sequences, FiniteSets, TLC

VARIABLES
  plugin,      \* which plugin source is loaded: "index_ts" or "part_000"
  hostConfig,  \* api.config, a JavaScript value owned by the host
  regPc,       \* register(api): "unloaded", "registering", "loaded", "failed"
  regIdx,      \* number of api.registerTool calls made so far
  pluginConfig,\* const pluginConfig of register(), or NotResolved
  registry,    \* the host's tool registry: one entry per api.registerTool call
  regLog,      \* api.logger entries written by register() itself
  calls,       \* handler invocations, one record per host call slot
  exArgs,      \* argument list handed to extractParams (extraction runs)
  exPc,        \* "ready" or "done" (extraction runs)
  exOut        \* what extractParams did with exArgs (extraction runs)

vars == <<plugin, hostConfig, regPc, regIdx, pluginConfig, registry, regLog,
          calls, exArgs, exPc, exOut>>

---------------------------------------------------------------------------
(* JavaScript values (`unknown`): tagged records.  An object keeps its own *)
(* enumerable properties in insertion order, as <<key, value>> pairs.      *)
(* The values are those the host hands to a tool (a call id, JSON-decoded  *)
(* parameters, plain context data, undefined) and the fixture server's     *)
(* decoded JSON: all of them values JSON.stringify accepts.                *)

Undefined == [t |-> "undefined"]
Null == [t |-> "null"]
Bool(b) == [t |-> "boolean", b |-> b]
Num(n) == [t |-> "number", n |-> n]
Str(s) == [t |-> "string", s |-> s]
Arr(a) == [t |-> "array", a |-> a]
Obj(o) == [t |-> "object", o |-> o]
EmptyObject == Obj(<<>>)

\* typeof v
typeof(v) ==
  CASE v.t \in {"null", "array", "object"} -> "object"
    [] OTHER -> v.t

\* Array.isArray(v)
Array_isArray(v) == v.t = "array"

\* What a property access that throws evaluates to: the TypeError, which
\* every further access and ?? hands on (the exception propagates).
TypeError == [t |-> "TypeError"]

\* obj.key: a TypeError on undefined or null, undefined when there is no
\* such property.
Get(v, key) ==
  IF v.t \in {"undefined", "null", "TypeError"} THEN TypeError
  ELSE IF v.t = "object" /\ \E i \in 1..Len(v.o) : v.o[i][1] = key
  THEN v.o[CHOOSE i \in 1..Len(v.o) : v.o[i][1] = key][2]
  ELSE Undefined

\* obj?.key: undefined on undefined or null
OptGet(v, key) == IF v.t \in {"undefined", "null"} THEN Undefined ELSE Get(v, key)

\* a ?? b
Coalesce(a, b) == IF a.t \in {"undefined", "null"} THEN b ELSE a

Min(a, b) == IF a <= b THEN a ELSE b

\* s.slice(0, n) for n >= 0
slice(s, n) == SubSeq(s, 1, Min(n, Len(s)))

\* The truncation limits of the logged texts: the argument dump of
\* part_000's extractParams and the result preview of callMockServer.
ArgsDumpLimit == 500
ResultPreviewLimit == 200

\* s.repeat(n)
RECURSIVE Repeat(_, _)
Repeat(s, n) == IF n = 0 THEN "" ELSE s \o Repeat(s, n - 1)

\* s.includes(sub)
Contains(s, sub) ==
  \E i \in 1..(Len(s) - Len(sub) + 1) : SubSeq(s, i, i + Len(sub) - 1) = sub

---------------------------------------------------------------------------
(* JSON.stringify.  JsonText: the compact text of a value; an undefined    *)
(* array element is written null, an undefined property is left out.       *)
(* JsonPretty: the same with a 2-space indent.                             *)

\* The properties JSON.stringify writes: those whose value is not undefined.
Written(o) == SelectSeq(o, LAMBDA p : p[2].t # "undefined")

RECURSIVE JsonText(_), JsonElems(_), JsonMembers(_)
JsonText(v) ==
  CASE v.t = "null" -> "null"
    [] v.t = "undefined" -> "null"
    [] v.t = "boolean" -> (IF v.b THEN "true" ELSE "false")
    [] v.t = "number" -> ToString(v.n)
    [] v.t = "string" -> "\"" \o v.s \o "\""
    [] v.t = "array" -> "[" \o JsonElems(v.a) \o "]"
    [] v.t = "object" -> "{" \o JsonMembers(Written(v.o)) \o "}"

JsonElems(a) ==
  IF a = <<>> THEN ""
  ELSE JsonText(a[1]) \o (IF Len(a) = 1 THEN "" ELSE "," \o JsonElems(Tail(a)))

JsonMembers(o) ==
  IF o = <<>> THEN ""
  ELSE "\"" \o o[1][1] \o "\":" \o JsonText(o[1][2])
       \o (IF Len(o) = 1 THEN "" ELSE "," \o JsonMembers(Tail(o)))

RECURSIVE JsonPretty(_, _), PrettyElems(_, _), PrettyMembers(_, _)
JsonPretty(v, ind) ==
  CASE v.t = "array" ->
         (IF v.a = <<>> THEN "[]"
          ELSE "[\n" \o PrettyElems(v.a, ind \o "  ") \o "\n" \o ind \o "]")
    [] v.t = "object" ->
         (IF Written(v.o) = <<>> THEN "{}"
          ELSE "{\n" \o PrettyMembers(Written(v.o), ind \o "  ") \o "\n" \o ind \o "}")
    [] OTHER -> JsonText(v)

PrettyElems(a, ind) ==
  ind \o JsonPretty(a[1], ind)
      \o (IF Len(a) = 1 THEN "" ELSE ",\n" \o PrettyElems(Tail(a), ind))

PrettyMembers(o, ind) ==
  ind \o "\"" \o o[1][1] \o "\": " \o JsonPretty(o[1][2], ind)
      \o (IF Len(o) = 1 THEN "" ELSE ",\n" \o PrettyMembers(Tail(o), ind))

\* JSON.stringify(v): the text as a JS string, or undefined for undefined.
JSON_stringify(v) == IF v.t = "undefined" THEN Undefined ELSE Str(JsonText(v))

\* JSON.stringify(v, null, 2)
JSON_stringify2(v) == IF v.t = "undefined" THEN Undefined ELSE Str(JsonPretty(v, ""))

---------------------------------------------------------------------------
(* Log entries of api.logger.  A handler's side effects are kept in the    *)
(* order it performs them: the log entries and the fetch calls.            *)

Info(msg) == [ev |-> "log", level |-> "info", msg |-> msg]
Warn(msg) == [ev |-> "log", level |-> "warn", msg |-> msg]

Warnings(log) == SelectSeq(log, LAMBDA e : e.ev = "log" /\ e.level = "warn")

---------------------------------------------------------------------------
(* extractParams.  The result records what the call did: the value it      *)
(* returned (ret) and the entries it logged.  No step of it can throw on   *)
(* the values above.                                                       *)

IsParamsObject(v) ==
  v.t # "null" /\ v.t # "undefined" /\ typeof(v) = "object" /\ ~Array_isArray(v)

UnexpectedShapeMsg == "[params-debug] unexpected args shape -- returning empty"

\* Mutant of extractParams: the Array.isArray tests are missing, so an array
\* passes for a parameter object.
extractParams_noArrayCheck(args, hasLogger) ==
  IF Len(args) = 0 THEN [ret |-> EmptyObject, log |-> <<>>]
  ELSE IF typeof(args[1]) = "string" /\ Len(args) >= 2 THEN
    IF args[2].t # "null" /\ typeof(args[2]) = "object"
    THEN [ret |-> args[2], log |-> <<>>]
    ELSE [ret |-> EmptyObject, log |-> <<>>]
  ELSE IF args[1].t # "null" /\ typeof(args[1]) = "object"
    THEN [ret |-> args[1], log |-> <<>>]
  ELSE [ret |-> EmptyObject,
        log |-> IF hasLogger THEN <<Warn(UnexpectedShapeMsg)>> ELSE <<>>]

\* index.ts: extractParams(args, logger)
extractParams(args, hasLogger) ==
  IF Len(args) = 0 THEN [ret |-> EmptyObject, log |-> <<>>]
  ELSE IF typeof(args[1]) = "string" /\ Len(args) >= 2 THEN
    IF IsParamsObject(args[2])
    THEN [ret |-> args[2], log |-> <<>>]
    ELSE [ret |-> EmptyObject, log |-> <<>>]
  ELSE IF IsParamsObject(args[1])
    THEN [ret |-> args[1], log |-> <<>>]
  ELSE [ret |-> EmptyObject,
        log |-> IF hasLogger THEN <<Warn(UnexpectedShapeMsg)>> ELSE <<>>]

\* part_000: the [params-debug] entry written on entry
CalledWithMsg(args) ==
  "[params-debug] execute() called with " \o ToString(Len(args)) \o " arg(s): "
    \o slice(JSON_stringify(Arr(args)).s, ArgsDumpLimit)

\* part_000: the [params-debug] entry written on the toolCallId path
ToolCallIdMsg(args) ==
  "[params-debug] args[0] is toolCallId=\"" \o slice(args[1].s, 30)
    \o "\", using args[1] as params"

\* part_000: extractParams(...args), a closure over api.logger
extractParams_p0(args) ==
  LET entry == <<Info(CalledWithMsg(args))>> IN
    IF Len(args) = 0 THEN [ret |-> EmptyObject, log |-> entry]
    ELSE IF typeof(args[1]) = "string" /\ Len(args) >= 2 THEN
      LET log2 == Append(entry, Info(ToolCallIdMsg(args))) IN
      IF IsParamsObject(args[2])
      THEN [ret |-> args[2], log |-> log2]
      ELSE [ret |-> EmptyObject, log |-> log2]
    ELSE IF args[1].t = "null" \/ args[1].t = "undefined"
      THEN [ret |-> EmptyObject, log |-> entry]
    ELSE IF typeof(args[1]) = "object" /\ ~Array_isArray(args[1])
      THEN [ret |-> args[1], log |-> entry]
    ELSE [ret |-> EmptyObject,
          log |-> Append(entry, Warn(UnexpectedShapeMsg))]

\* The extraction a handler of the loaded plugin performs on its arguments.
Extract(p, args) ==
  IF p = "index_ts" THEN extractParams(args, TRUE) ELSE extractParams_p0(args)

---------------------------------------------------------------------------
(* The tool catalog.  Of a ToolDefinition the model keeps the name, the    *)
(* keys of parameters.properties in source order, and parameters.required  *)
(* (hasRequired tells whether the optional field is there); descriptions   *)
(* and the property schemas are free text nothing in the plugin reads.     *)

Tool(name, properties, hasRequired, required) ==
  [name |-> name, properties |-> properties,
   hasRequired |-> hasRequired, required |-> required]

\* index.ts: const TOOLS
TOOLS ==
  << Tool("slack",
          <<"action", "to", "content", "threadTs", "channelId", "limit", "before",
            "after", "threadId", "messageId", "emoji", "remove", "userId">>,
          TRUE, <<"action">>),
     Tool("exec", <<"command", "workdir", "timeout", "background">>,
          TRUE, <<"command">>),
     Tool("memory_search", <<"query", "maxResults", "minScore">>, TRUE, <<"query">>),
     Tool("memory_get", <<"path", "from", "lines">>, TRUE, <<"path">>),
     Tool("web_search", <<"query", "count", "country", "freshness">>,
          TRUE, <<"query">>),
     Tool("web_fetch", <<"url", "extractMode", "maxChars">>, TRUE, <<"url">>),
     Tool("read", <<"path", "from", "lines">>, TRUE, <<"path">>) >>

\* part_000: the six api.registerTool blocks, each with the endpoint its
\* execute passes to callMockServer.
InlineTool(name, properties, hasRequired, required, endpoint) ==
  [name |-> name, properties |-> properties, hasRequired |-> hasRequired,
   required |-> required, endpoint |-> endpoint]

TOOLS_p0 ==
  << InlineTool("inbox_list", <<>>, FALSE, <<>>, "/tools/inbox.list"),
     InlineTool("email_draft", <<"message_id", "instructions">>,
                TRUE, <<"message_id", "instructions">>, "/tools/email.draft"),
     InlineTool("email_send", <<"draft_id">>, TRUE, <<"draft_id">>,
                "/tools/email.send"),
     InlineTool("calendar_read", <<"start_date", "end_date">>, FALSE, <<>>,
                "/tools/calendar.read"),
     InlineTool("memory_read", <<"path">>, TRUE, <<"path">>, "/tools/memory.read"),
     InlineTool("memory_write", <<"path", "content">>, TRUE, <<"path", "content">>,
                "/tools/memory.write") >>

Plugins == {"index_ts", "part_000"}

\* Mutant of Catalog: the first catalog entry appears a second time.
Catalog_duplicate(p) == IF p = "index_ts" THEN Append(TOOLS, TOOLS[1]) ELSE TOOLS_p0

\* The tools register() walks through: `for (const tool of TOOLS)` in
\* index.ts, the registration blocks in source order in part_000.
Catalog(p) == IF p = "index_ts" THEN TOOLS ELSE TOOLS_p0

---------------------------------------------------------------------------
(* Plugin configuration.                                                   *)

PluginId == "trajectory-sandbox-tools"

DefaultMockServerUrl == "http://localhost:3001"

\* Mutant of getPluginConfig: plain property accesses, no optional chain.
getPluginConfig_strict(config) ==
  Coalesce(Get(Get(Get(Get(config, "plugins"), "entries"), PluginId), "config"),
           EmptyObject)

\* getPluginConfig(api), given api.config
getPluginConfig(config) ==
  LET entries == OptGet(Get(config, "plugins"), "entries")
  IN Coalesce(OptGet(OptGet(entries, PluginId), "config"), EmptyObject)

\* callMockServer: const baseUrl
baseUrl(config) == Coalesce(Get(config, "mockServerUrl"), Str(DefaultMockServerUrl)).s

EntriesConfig(id, cfg) ==
  Obj(<< <<"plugins", Obj(<< <<"entries", Obj(<< <<id, cfg>> >>)>> >>)>> >>)

\* The host configurations a run starts from: no plugins section; an entry
\* for another plugin only; an entry for this plugin without a config; a
\* config without mockServerUrl; a config with mockServerUrl.
HostConfigs ==
  { Obj(<<>>),
    EntriesConfig("other-plugin",
      Obj(<< <<"config", Obj(<< <<"mockServerUrl", Str("http://other:9000")>> >>)>> >>)),
    EntriesConfig(PluginId, Obj(<<>>)),
    EntriesConfig(PluginId,
      Obj(<< <<"config", Obj(<< <<"scenario", Str("inbox_triage")>> >>)>> >>)),
    EntriesConfig(PluginId,
      Obj(<< <<"config", Obj(<< <<"mockServerUrl", Str("http://mock:8080")>> >>)>> >>)) }

NotResolved == Undefined

---------------------------------------------------------------------------
(* register(api): the messages it logs and the descriptor it hands to      *)
(* api.registerTool.  A registry entry is one api.registerTool call: the   *)
(* descriptor's name and parameters, the options' names, and what the      *)
(* execute closure captured (toolName in index.ts, the literal endpoint in *)
(* part_000).                                                              *)

RECURSIVE JoinNames(_)
JoinNames(tools) ==
  IF tools = <<>> THEN ""
  ELSE tools[1].name \o (IF Len(tools) = 1 THEN "" ELSE ", " \o JoinNames(Tail(tools)))

LoadingMsg(p) ==
  IF p = "index_ts"
  THEN "Trajectory Sandbox Tools plugin loading (corrected schema v0.3.0)..."
  ELSE "Trajectory Sandbox Tools plugin loading..."

LoadedMsg(p) ==
  IF p = "index_ts"
  THEN "Trajectory Sandbox Tools plugin loaded: " \o ToString(Len(TOOLS))
         \o " tools registered (" \o JoinNames(TOOLS) \o ")"
  ELSE "Trajectory Sandbox Tools plugin loaded: 6 tools registered"

\* index.ts: the arguments of api.registerTool for one catalog entry
Registration(tool) ==
  [name |-> tool.name, properties |-> tool.properties,
   hasRequired |-> tool.hasRequired, required |-> tool.required,
   names |-> <<tool.name>>, captured |-> tool.name]

\* part_000: the arguments of the i-th api.registerTool block
Registration_p0(tool) ==
  [name |-> tool.name, properties |-> tool.properties,
   hasRequired |-> tool.hasRequired, required |-> tool.required,
   names |-> <<tool.name>>, captured |-> tool.endpoint]

\* The endpoint a registered handler routes to.
\* index.ts: const endpoint = `/tools/${toolName}`; part_000: the literal.
HandlerEndpoint(p, entry) ==
  IF p = "index_ts" THEN "/tools/" \o entry.captured ELSE entry.captured

---------------------------------------------------------------------------
(* The fixture server as fetch sees it.  fetch either rejects (the request *)
(* could not be completed) or resolves with a response: status, status     *)
(* text, body text, and whether the body can be read (response.text() and  *)
(* response.json() reject when the body stream fails).                     *)

Rejected == [kind |-> "rejected"]

Http(status, statusText, body, readable) ==
  [kind |-> "response", status |-> status, statusText |-> statusText,
   body |-> body, readable |-> readable]

NoResponse == [kind |-> "none"]

\* response.ok
ok(r) == r.status >= 200 /\ r.status <= 299

Responses ==
  { Http(200, "OK", "{\"messages\":[]}", TRUE),
    Http(200, "OK", "{ \"draft_id\": \"d1\", \"sent\": false }", TRUE),
    Http(201, "Created", "[1,null]", TRUE),
    Http(200, "OK", "<html>busy</html>", TRUE),
    Http(204, "No Content", "", TRUE),
    Http(200, "OK", "", FALSE),
    Http(500, "Internal Server Error", "db unavailable", TRUE),
    Http(404, "Not Found", "", TRUE),
    Http(503, "Service Unavailable", "", FALSE) }

\* JSON.parse on the body texts the fixture server sends: the texts that are
\* JSON, each with the value it denotes; every other text is a SyntaxError.
ParseTable ==
  { <<"{\"messages\":[]}", Obj(<< <<"messages", Arr(<<>>)>> >>)>>,
    <<"{ \"draft_id\": \"d1\", \"sent\": false }",
      Obj(<< <<"draft_id", Str("d1")>>, <<"sent", Bool(FALSE)>> >>)>>,
    <<"[1,null]", Arr(<<Num(1), Null>>)>>,
    <<"{}", EmptyObject>>,
    <<"null", Null>> }

JSON_parse(text) ==
  IF \E e \in ParseTable : e[1] = text
  THEN [throws |-> FALSE, v |-> (CHOOSE e \in ParseTable : e[1] = text)[2]]
  ELSE [throws |-> TRUE, v |-> Undefined]

\* await response.json()
response_json(r) ==
  IF ~r.readable THEN [throws |-> TRUE, v |-> Undefined] ELSE JSON_parse(r.body)

\* Mutant of errorText: a failed read yields the empty text, no placeholder.
errorText_noPlaceholder(r) == IF r.readable THEN r.body ELSE ""

\* await response.text().catch(() => "(no body)")
errorText(r) == IF r.readable THEN r.body ELSE "(no body)"

---------------------------------------------------------------------------
(* callMockServer and execute, cut at their await points.                  *)

Err(name, message) == [name |-> name, message |-> message]

NoOutcome == [kind |-> "none"]
Returned(v) == [kind |-> "returned", value |-> v]
Thrown(e) == [kind |-> "thrown", error |-> e]

\* Mutant of Request: the Content-Type header is missing.
Request_noContentType(url, bodyStr) ==
  [method |-> "POST", url |-> url, headers |-> <<>>, body |-> bodyStr]

\* fetch(url, {method, headers, body})
Request(url, bodyStr) ==
  [method |-> "POST", url |-> url,
   headers |-> << <<"Content-Type", "application/json">> >>, body |-> bodyStr]

\* The fetch call as a side effect of the handler.
Fetch(request) == [ev |-> "fetch", request |-> request]

PostMsg(endpoint, bodyStr) == "[mock-call] POST " \o endpoint \o " body=" \o bodyStr

FailedMsg(endpoint, r) ==
  "[mock-call] FAILED " \o endpoint \o " status=" \o ToString(r.status)
    \o " response=" \o errorText(r)

\* Mutant of MockServerError: the message leaves the body text out.
MockServerError_noBody(r) ==
  Err("Error", "Mock server error: " \o ToString(r.status) \o " " \o r.statusText)

\* new Error(`Mock server error: ...`); the source's dash is U+2014
MockServerError(r) ==
  Err("Error", "Mock server error: " \o ToString(r.status) \o " " \o r.statusText
                 \o " -- " \o errorText(r))

OkMsg(endpoint, result) ==
  "[mock-call] OK " \o endpoint \o " result="
    \o slice(JSON_stringify(result).s, ResultPreviewLimit)

\* Mutant of Envelope: the text is serialised without the indent.
Envelope_compact(result) ==
  Obj(<< <<"content",
           Arr(<< Obj(<< <<"type", Str("text")>>,
                         <<"text", JSON_stringify(result)>> >>) >>)>> >>)

\* execute's return value
Envelope(result) ==
  Obj(<< <<"content",
           Arr(<< Obj(<< <<"type", Str("text")>>,
                         <<"text", JSON_stringify2(result)>> >>) >>)>> >>)

IdleCall ==
  [pc |-> "idle", tool |-> 0, args |-> <<>>, endpoint |-> "", effects |-> <<>>,
   response |-> NoResponse, outcome |-> NoOutcome]

\* What the invocation wrote to api.logger, and the requests it issued.
Log(call) == SelectSeq(call.effects, LAMBDA e : e.ev = "log")
Requests(call) ==
  LET f == SelectSeq(call.effects, LAMBDA e : e.ev = "fetch")
  IN [i \in 1..Len(f) |-> f[i].request]

\* Mutant of callMockServer: the request is issued first and logged after.
callMockServer_logsAfterFetch(call, config, endpoint, body, hasLogger) ==
  LET b == IF body.t = "undefined" THEN EmptyObject ELSE body
      bodyStr == JSON_stringify(b)
      logged == IF hasLogger THEN <<Info(PostMsg(endpoint, bodyStr.s))>> ELSE <<>>
  IN [call EXCEPT
        !.pc = "fetch",
        !.endpoint = endpoint,
        !.effects = call.effects
                      \o <<Fetch(Request(baseUrl(config) \o endpoint, bodyStr.s))>>
                      \o logged]

\* callMockServer up to `await fetch(...)`, given the handler's state so far:
\* the body defaults to {}, is serialised, logged and sent.
callMockServer(call, config, endpoint, body, hasLogger) ==
  LET b == IF body.t = "undefined" THEN EmptyObject ELSE body
      bodyStr == JSON_stringify(b)
      logged == IF hasLogger THEN <<Info(PostMsg(endpoint, bodyStr.s))>> ELSE <<>>
  IN [call EXCEPT
        !.pc = "fetch",
        !.endpoint = endpoint,
        !.effects = call.effects \o logged
                      \o <<Fetch(Request(baseUrl(config) \o endpoint, bodyStr.s))>>]

\* Mutant of execute: the proxy numbers its calls, the number of the calls
\* made before goes into the request body.
execute_sequenced(p, entry, i, config, args) ==
  LET ex == Extract(p, args)
      seq == Cardinality({c \in DOMAIN calls : calls[c].pc # "idle"})
      call == [IdleCall EXCEPT !.tool = i, !.args = args, !.effects = ex.log]
  IN callMockServer(call, config, HandlerEndpoint(p, entry),
                    Obj(Append(ex.ret.o, <<"seq", Num(seq)>>)), TRUE)

\* async execute(...args) up to its first await
execute(p, entry, i, config, args) ==
  LET ex == Extract(p, args)
      call == [IdleCall EXCEPT !.tool = i, !.args = args, !.effects = ex.log]
  IN callMockServer(call, config, HandlerEndpoint(p, entry), ex.ret, TRUE)

\* Mutant of fetchRejected: a rejected fetch is tried again.
fetchRejected_retry(call) ==
  [call EXCEPT !.effects = Append(call.effects, Fetch(Requests(call)[1]))]

\* callMockServer: fetch rejected; the rejection leaves execute unhandled
fetchRejected(call) ==
  [call EXCEPT !.pc = "thrown", !.response = Rejected,
     !.outcome = Thrown(Err("TypeError", "fetch failed"))]

\* callMockServer: fetch resolved; `if (!response.ok)` picks the next await
fetchResolved(call, r) ==
  [call EXCEPT !.pc = IF ~ok(r) THEN "text" ELSE "json", !.response = r]

\* Mutant of textResolved: the response is kept in one variable all calls
\* share, so the error is built from the response another call got last.
textResolved_sharedResponse(call, hasLogger) ==
  LET others == {d \in DOMAIN calls :
                   calls[d] # call /\ calls[d].response.kind = "response"}
      r == IF others = {} THEN call.response
           ELSE calls[CHOOSE d \in others : TRUE].response
  IN [call EXCEPT
        !.pc = "thrown",
        !.effects = IF hasLogger
                    THEN Append(call.effects, Warn(FailedMsg(call.endpoint, r)))
                    ELSE call.effects,
        !.outcome = Thrown(MockServerError(r))]

\* callMockServer: after `await response.text().catch(...)`: warn and throw
textResolved(call, hasLogger) ==
  [call EXCEPT
     !.pc = "thrown",
     !.effects = IF hasLogger
                 THEN Append(call.effects, Warn(FailedMsg(call.endpoint, call.response)))
                 ELSE call.effects,
     !.outcome = Thrown(MockServerError(call.response))]

\* Mutant of jsonResolved: a body that does not decode is swallowed and the
\* call returns null in its place.
jsonResolved_swallowsDecodeError(call, hasLogger) ==
  LET result == response_json(call.response)
      v == IF result.throws THEN Null ELSE result.v
  IN [call EXCEPT
        !.pc = "returned",
        !.effects = IF hasLogger /\ ~result.throws
                    THEN Append(call.effects, Info(OkMsg(call.endpoint, v)))
                    ELSE call.effects,
        !.outcome = Returned(Envelope(v))]

\* callMockServer: after `await response.json()`: log, return; execute wraps
jsonResolved(call, hasLogger) ==
  LET result == response_json(call.response)
  IN IF result.throws
     THEN [call EXCEPT !.pc = "thrown",
             !.outcome = Thrown(IF call.response.readable
                                THEN Err("SyntaxError", "Unexpected token in JSON")
                                ELSE Err("TypeError", "terminated"))]
     ELSE [call EXCEPT
             !.pc = "returned",
             !.effects = IF hasLogger
                         THEN Append(call.effects, Info(OkMsg(call.endpoint, result.v)))
                         ELSE call.effects,
             !.outcome = Returned(Envelope(result.v))]

---------------------------------------------------------------------------
(* Inputs.                                                                 *)

\* Longest argument list of an extraction run.
MaxArgs == 3

\* A large payload: a message text of 600 characters.
LongText == Repeat("lorem ipsum ", 50)

\* Values an argument of execute can be.
Values ==
  { Undefined, Null, Str("call-1"), Num(7), Arr(<<>>), Arr(<<EmptyObject>>),
    EmptyObject, Obj(<< <<"path", Str("a.md")>> >>), Bool(TRUE), Str(LongText) }

RECURSIVE ArgLists(_)
ArgLists(n) ==
  IF n = 0 THEN {<<>>}
  ELSE ArgLists(n - 1)
         \cup {Append(a, v) : a \in {b \in ArgLists(n - 1) : Len(b) = n - 1}, v \in Values}

\* Argument lists the host invokes a handler with: JSON-compatible parameter
\* objects in either convention, and the malformed shapes.
HostArgs ==
  { <<>>,
    <<Str("call-1"), EmptyObject>>,
    <<Str("call-2"), Obj(<< <<"path", Str("a.md")>>, <<"from", Num(3)>> >>),
      Obj(<< <<"session", Str("s1")>> >>), Undefined>>,
    <<Obj(<< <<"query", Str("x")>>, <<"tags", Arr(<<Str("a"), Str("b")>>)>> >>)>>,
    <<Str("call-3"), Arr(<<Num(1)>>)>>,
    <<Arr(<<EmptyObject>>)>>,
    <<Null>>,
    <<Str("call-4")>>,
    <<Str("call-5"), Obj(<< <<"action", Str("sendMessage")>>,
                            <<"content", Str(LongText)>> >>)>> }

NoExtraction == [ret |-> Undefined, log |-> <<>>]

---------------------------------------------------------------------------
(* The plugin's life: load (register), then handler invocations.           *)

Init ==
  /\ plugin \in Plugins
  /\ hostConfig \in HostConfigs
  /\ regPc = "unloaded"
  /\ regIdx = 0
  /\ pluginConfig = NotResolved
  /\ registry = <<>>
  /\ regLog = <<>>
  /\ calls = [c \in {1} |-> IdleCall]
  /\ exArgs = <<>>
  /\ exPc = "off"
  /\ exOut = NoExtraction

\* register(): the loading message and `const pluginConfig = getPluginConfig(api)`
RegisterBegin ==
  /\ regPc = "unloaded"
  /\ regLog' = Append(regLog, Info(LoadingMsg(plugin)))
  /\ pluginConfig' = getPluginConfig(hostConfig)
  /\ regPc' = IF pluginConfig'.t = "TypeError" THEN "failed" ELSE "registering"
  /\ UNCHANGED <<plugin, hostConfig, regIdx, registry, calls, exArgs, exPc, exOut>>

\* register(): the next api.registerTool call (one loop pass in index.ts,
\* the next block in part_000)
RegisterTool ==
  /\ regPc = "registering"
  /\ regIdx < Len(Catalog(plugin))
  /\ regIdx' = regIdx + 1
  /\ registry' = Append(registry,
                        IF plugin = "index_ts"
                        THEN Registration(Catalog(plugin)[regIdx + 1])
                        ELSE Registration_p0(Catalog(plugin)[regIdx + 1]))
  /\ UNCHANGED <<plugin, hostConfig, regPc, pluginConfig, regLog, calls,
                 exArgs, exPc, exOut>>

\* register(): the loaded message; register returns
RegisterEnd ==
  /\ regPc = "registering"
  /\ regIdx = Len(Catalog(plugin))
  /\ regPc' = "loaded"
  /\ regLog' = Append(regLog, Info(LoadedMsg(plugin)))
  /\ UNCHANGED <<plugin, hostConfig, regIdx, pluginConfig, registry, calls,
                 exArgs, exPc, exOut>>

Settled(call) == call.pc \in {"idle", "returned", "thrown"}

\* The host invokes a registered tool's execute(...args) in a free slot.
Invoke(c) ==
  /\ regPc = "loaded"
  /\ Settled(calls[c])
  /\ \E i \in 1..Len(registry), args \in HostArgs :
       calls' = [calls EXCEPT ![c] = execute(plugin, registry[i], i, pluginConfig, args)]
  /\ UNCHANGED <<plugin, hostConfig, regPc, regIdx, pluginConfig, registry, regLog,
                 exArgs, exPc, exOut>>

\* fetch rejects: the request could not be completed.
FetchRejects(c) ==
  /\ calls[c].pc = "fetch"
  /\ calls' = [calls EXCEPT ![c] = fetchRejected(calls[c])]
  /\ UNCHANGED <<plugin, hostConfig, regPc, regIdx, pluginConfig, registry, regLog,
                 exArgs, exPc, exOut>>

\* fetch resolves with the fixture server's response.
FetchResolves(c) ==
  /\ calls[c].pc = "fetch"
  /\ \E r \in Responses : calls' = [calls EXCEPT ![c] = fetchResolved(calls[c], r)]
  /\ UNCHANGED <<plugin, hostConfig, regPc, regIdx, pluginConfig, registry, regLog,
                 exArgs, exPc, exOut>>

\* The best-effort read of an error response's body settles.
TextResolves(c) ==
  /\ calls[c].pc = "text"
  /\ calls' = [calls EXCEPT ![c] = textResolved(calls[c], TRUE)]
  /\ UNCHANGED <<plugin, hostConfig, regPc, regIdx, pluginConfig, registry, regLog,
                 exArgs, exPc, exOut>>

\* response.json() settles.
JsonResolves(c) ==
  /\ calls[c].pc = "json"
  /\ calls' = [calls EXCEPT ![c] = jsonResolved(calls[c], TRUE)]
  /\ UNCHANGED <<plugin, hostConfig, regPc, regIdx, pluginConfig, registry, regLog,
                 exArgs, exPc, exOut>>

Next ==
  \/ RegisterBegin
  \/ RegisterTool
  \/ RegisterEnd
  \/ \E c \in DOMAIN calls : Invoke(c)
  \/ \E c \in DOMAIN calls : FetchRejects(c)
  \/ \E c \in DOMAIN calls : FetchResolves(c)
  \/ \E c \in DOMAIN calls : TextResolves(c)
  \/ \E c \in DOMAIN calls : JsonResolves(c)

Spec == Init /\ [][Next]_vars

---------------------------------------------------------------------------
(* Extraction runs: extractParams of the loaded plugin applied to every    *)
(* argument list of up to MaxArgs values.                                  *)

InitExtract ==
  /\ plugin \in Plugins
  /\ hostConfig = Obj(<<>>)
  /\ regPc = "unloaded"
  /\ regIdx = 0
  /\ pluginConfig = NotResolved
  /\ registry = <<>>
  /\ regLog = <<>>
  /\ calls = [c \in {1} |-> IdleCall]
  /\ exArgs \in ArgLists(MaxArgs)
  /\ exPc = "ready"
  /\ exOut = NoExtraction

\* const params = extractParams(...) as execute calls it
ExtractRun ==
  /\ exPc = "ready"
  /\ exPc' = "done"
  /\ exOut' = Extract(plugin, exArgs)
  /\ UNCHANGED <<plugin, hostConfig, regPc, regIdx, pluginConfig, registry, regLog,
                 calls, exArgs>>

NextExtract == ExtractRun

SpecExtract == InitExtract /\ [][NextExtract]_vars

---------------------------------------------------------------------------
(* Concurrent invocations: the host runs two handler invocations at once   *)
(* (two sessions), each suspended at its own await; the steps of the two   *)
(* interleave freely.  The inputs are a part of those above: the first     *)
(* tools of the registry, both calling conventions with equal and with     *)
(* different parameters, and one response of each kind.                    *)

Slots == {1, 2}

ConcurrentTools == {1, 2, 3}

ConcurrentConfigs ==
  { Obj(<<>>),
    EntriesConfig(PluginId,
      Obj(<< <<"config", Obj(<< <<"mockServerUrl", Str("http://mock:8080")>> >>)>> >>)) }

ConcurrentArgs ==
  { <<>>,
    <<Str("call-1"), EmptyObject>>,
    <<Str("call-2"), Obj(<< <<"path", Str("a.md")>>, <<"from", Num(3)>> >>),
      Obj(<< <<"session", Str("s1")>> >>), Undefined>>,
    <<Obj(<< <<"path", Str("a.md")>>, <<"from", Num(3)>> >>)>> }

ConcurrentResponses ==
  { Http(200, "OK", "{\"messages\":[]}", TRUE),
    Http(200, "OK", "<html>busy</html>", TRUE),
    Http(500, "Internal Server Error", "db unavailable", TRUE),
    Http(503, "Service Unavailable", "", FALSE) }

InitConcurrent ==
  /\ plugin \in Plugins
  /\ hostConfig \in ConcurrentConfigs
  /\ regPc = "unloaded"
  /\ regIdx = 0
  /\ pluginConfig = NotResolved
  /\ registry = <<>>
  /\ regLog = <<>>
  /\ calls = [c \in Slots |-> IdleCall]
  /\ exArgs = <<>>
  /\ exPc = "off"
  /\ exOut = NoExtraction

\* The host invokes a registered tool's execute(...args) in a free slot,
\* whatever the other slot is doing.
InvokeConcurrently(c) ==
  /\ regPc = "loaded"
  /\ Settled(calls[c])
  /\ \E i \in ConcurrentTools, args \in ConcurrentArgs :
       calls' = [calls EXCEPT ![c] = execute(plugin, registry[i], i, pluginConfig, args)]
  /\ UNCHANGED <<plugin, hostConfig, regPc, regIdx, pluginConfig, registry, regLog,
                 exArgs, exPc, exOut>>

\* fetch of slot c resolves with the fixture server's response.
FetchResolvesConcurrently(c) ==
  /\ calls[c].pc = "fetch"
  /\ \E r \in ConcurrentResponses :
       calls' = [calls EXCEPT ![c] = fetchResolved(calls[c], r)]
  /\ UNCHANGED <<plugin, hostConfig, regPc, regIdx, pluginConfig, registry, regLog,
                 exArgs, exPc, exOut>>

NextConcurrent ==
  \/ RegisterBegin
  \/ RegisterTool
  \/ RegisterEnd
  \/ \E c \in DOMAIN calls : InvokeConcurrently(c)
  \/ \E c \in DOMAIN calls : FetchRejects(c)
  \/ \E c \in DOMAIN calls : FetchResolvesConcurrently(c)
  \/ \E c \in DOMAIN calls : TextResolves(c)
  \/ \E c \in DOMAIN calls : JsonResolves(c)

SpecConcurrent == InitConcurrent /\ [][NextConcurrent]_vars

---------------------------------------------------------------------------
(* Properties of extractParams (checked over the extraction runs).         *)

\* "A non-null, non-array object."
PlainObject(v) == v.t = "object"

\* The result the rules give, tried in order.
ExpectedParams(args) ==
  IF args = <<>> THEN EmptyObject
  ELSE IF args[1].t = "string" /\ Len(args) >= 2
    THEN (IF PlainObject(args[2]) THEN args[2] ELSE EmptyObject)
  ELSE IF PlainObject(args[1]) THEN args[1]
  ELSE EmptyObject

\* The argument lists no rule recognises: not empty, not (string, second,
\* ...), and the first argument is not a non-null, non-array object.
Unrecognised(args) ==
  /\ args # <<>>
  /\ ~(args[1].t = "string" /\ Len(args) >= 2)
  /\ ~PlainObject(args[1])

\* C1: for every argument list extractParams returns {} for the empty list,
\* the second argument (or {} when it is not a non-null, non-array object)
\* when the first is a string and there are at least two arguments, else
\* the first argument when that is a non-null, non-array object, else {};
\* the first rule that matches decides.
C1_ExtractParamsRules == exPc = "done" => exOut.ret = ExpectedParams(exArgs)

\* C1 witness: a (callId, params, context) call returned its second argument.
C1_Witness ==
  /\ exPc = "done"
  /\ Len(exArgs) = 3
  /\ exArgs[1] = Str("call-1")
  /\ exArgs[2] = Obj(<< <<"path", Str("a.md")>> >>)
  /\ exOut.ret = exArgs[2]

\* C2 (as claimed): on an argument list no rule recognises, extractParams
\* returns {} and emits exactly one warning entry.
C2_WarnsOnceOnUnrecognised ==
  (exPc = "done" /\ Unrecognised(exArgs))
    => (exOut.ret = EmptyObject /\ Len(Warnings(exOut.log)) = 1)

\* The same statement restricted to index.ts, where it holds.
C2_IndexTsWarnsOnce == plugin = "index_ts" => C2_WarnsOnceOnUnrecognised

\* The fixed text before the argument dump of a [params-debug] entry.
DumpPrefix(args) ==
  "[params-debug] execute() called with " \o ToString(Len(args)) \o " arg(s): "

\* C16 (as claimed): every extraction, on every path, has left at least one
\* log entry, and no entry is longer than the fixed text before the dump
\* plus the limit the dump of the arguments is cut to.
C16_EveryExtractionLogged ==
  exPc = "done" =>
    /\ Len(exOut.log) >= 1
    /\ \A i \in 1..Len(exOut.log) :
         Len(exOut.log[i].msg) <= Len(DumpPrefix(exArgs)) + ArgsDumpLimit

\* The same statement restricted to part_000, where it holds: the first
\* entry is the dump of the arguments, cut to ArgsDumpLimit characters.
C16_Part000ExtractionLogged ==
  (plugin = "part_000" /\ exPc = "done") =>
    /\ C16_EveryExtractionLogged
    /\ exOut.log[1].level = "info"
    /\ slice(exOut.log[1].msg, Len(DumpPrefix(exArgs))) = DumpPrefix(exArgs)
    /\ Len(JsonText(Arr(exArgs))) > ArgsDumpLimit
         => Len(exOut.log[1].msg) = Len(DumpPrefix(exArgs)) + ArgsDumpLimit

\* index.ts logs nothing on the three recognised paths.
C16_IndexTsLogsOnlyUnrecognised ==
  (plugin = "index_ts" /\ exPc = "done") =>
    (exOut.log = <<>> <=> ~Unrecognised(exArgs))

---------------------------------------------------------------------------
(* Properties of the handlers (checked over the plugin's life).            *)

\* The fixture server answered the call with an HTTP response.
Answered(k) == k.response.kind = "response"

LastChar(s) == SubSeq(s, Len(s), Len(s))

\* The JSON bodies the fixture server sends, each with its 2-space-indented
\* serialisation written out.
IndentedJson ==
  { <<"{\"messages\":[]}", "{\n  \"messages\": []\n}">>,
    <<"{ \"draft_id\": \"d1\", \"sent\": false }",
      "{\n  \"draft_id\": \"d1\",\n  \"sent\": false\n}">>,
    <<"[1,null]", "[\n  1,\n  null\n]">> }

IsJsonBody(r) == r.readable /\ \E e \in IndentedJson : e[1] = r.body

IndentedOf(body) == (CHOOSE e \in IndentedJson : e[1] = body)[2]

\* { content: [ { type: "text", text } ] }
TextEnvelope(text) ==
  Obj(<< <<"content",
           Arr(<< Obj(<< <<"type", Str("text")>>, <<"text", Str(text)>> >>) >>)>> >>)

\* C3: when the fixture server answers with a 2xx status and a JSON body,
\* the handler returns an envelope whose content is exactly one block of
\* type "text" whose text is the 2-space-indented JSON of the decoded
\* response value, unaltered.
C3_SuccessEnvelope ==
  \A c \in DOMAIN calls :
    LET k == calls[c] IN
    (Settled(k) /\ Answered(k) /\ ok(k.response) /\ IsJsonBody(k.response))
      => k.outcome = Returned(TextEnvelope(IndentedOf(k.response.body)))

\* C3 witness: the spec's scenario, {"messages": []} returned as text.
C3_Witness ==
  \E c \in DOMAIN calls :
    /\ calls[c].pc = "returned"
    /\ calls[c].response = Http(200, "OK", "{\"messages\":[]}", TRUE)
    /\ calls[c].outcome = Returned(TextEnvelope("{\n  \"messages\": []\n}"))

\* C4: when the fixture server answers with a non-2xx status, the handler
\* never returns an envelope for that call and ends with a thrown error
\* whose message contains the status code, the status text and the text of
\* the response body (the text that could be read).
C4_HttpErrorThrows ==
  \A c \in DOMAIN calls :
    LET k == calls[c] IN
    (Answered(k) /\ ~ok(k.response)) =>
      /\ k.outcome.kind # "returned"
      /\ Settled(k) =>
           /\ k.pc = "thrown"
           /\ k.outcome.kind = "thrown"
           /\ Contains(k.outcome.error.message, ToString(k.response.status))
           /\ Contains(k.outcome.error.message, k.response.statusText)
           /\ k.response.readable
                => Contains(k.outcome.error.message, k.response.body)

\* C4 witness: the spec's scenario, HTTP 500 with body "db unavailable".
C4_Witness ==
  \E c \in DOMAIN calls :
    /\ calls[c].pc = "thrown"
    /\ calls[c].response = Http(500, "Internal Server Error", "db unavailable", TRUE)
    /\ calls[c].outcome.error.message
         = "Mock server error: 500 Internal Server Error -- db unavailable"

\* C5: every invocation of a handler issues exactly one HTTP request,
\* whatever the outcome; a transport failure ends the call as thrown at
\* once, and no failed call has issued a second request.
C5_OneRequestPerInvocation ==
  \A c \in DOMAIN calls :
    LET k == calls[c] IN
    /\ k.pc # "idle" => Len(Requests(k)) = 1
    /\ k.response = Rejected => (k.pc = "thrown" /\ k.outcome.kind = "thrown")

\* C5 witness: a call that failed in transport, with its one request.
C5_Witness ==
  \E c \in DOMAIN calls :
    /\ calls[c].pc = "thrown"
    /\ calls[c].response = Rejected
    /\ Len(Requests(calls[c])) = 1

\* C6: for every request a handler issues, an info entry naming the
\* endpoint and the request body was logged before the request was issued,
\* and it is in the log whatever the call's later outcome.
C6_AuditEntryBeforeRequest ==
  \A c \in DOMAIN calls :
    LET k == calls[c] IN
    /\ \A j \in 1..Len(k.effects) :
         k.effects[j].ev = "fetch" =>
           \E i \in 1..(j - 1) :
             k.effects[i] = Info("[mock-call] POST " \o k.endpoint \o " body="
                                   \o k.effects[j].request.body)
    /\ k.pc # "idle" =>
         \E i \in 1..Len(k.effects) :
           /\ k.effects[i].ev = "log"
           /\ k.effects[i].level = "info"
           /\ Contains(k.effects[i].msg, k.endpoint)
           /\ Contains(k.effects[i].msg, Requests(k)[1].body)

\* C6 witness: a call that failed after an error response, the audit entry
\* still first among its mock-call entries.
C6_Witness ==
  \E c \in DOMAIN calls :
    /\ calls[c].pc = "thrown"
    /\ Answered(calls[c])
    /\ \E i \in 1..Len(calls[c].effects) :
         calls[c].effects[i]
           = Info("[mock-call] POST /tools/web_search body={\"path\":\"a.md\",\"from\":3}")

\* C7: every request is a POST with header Content-Type: application/json
\* whose body is the JSON encoding of the extracted parameter object; the
\* body is a JSON object for every argument list, and the literal {} when
\* the extracted parameters are empty.
C7_RequestShape ==
  \A c \in DOMAIN calls :
    LET k == calls[c] IN
    \A j \in 1..Len(Requests(k)) :
      LET r == Requests(k)[j] IN
      /\ r.method = "POST"
      /\ r.headers = << <<"Content-Type", "application/json">> >>
      /\ r.body = JsonText(ExpectedParams(k.args))
      /\ Head(r.body) = "{" /\ LastChar(r.body) = "}"
      /\ ExpectedParams(k.args) = EmptyObject => r.body = "{}"
      /\ (k.args # <<>> /\ k.args[1] = Str("call-2")) => r.body = "{\"path\":\"a.md\",\"from\":3}"

\* C7 witness: a handler invoked without arguments sent the body {}.
C7_Witness ==
  \E c \in DOMAIN calls :
    /\ calls[c].pc # "idle"
    /\ calls[c].args = <<>>
    /\ Requests(calls[c])[1].body = "{}"

\* The base URL the host configuration asks for.
ExpectedBase ==
  IF hostConfig = EntriesConfig(PluginId,
       Obj(<< <<"config", Obj(<< <<"mockServerUrl", Str("http://mock:8080")>> >>)>> >>))
  THEN "http://mock:8080"
  ELSE "http://localhost:3001"

\* C8 (as claimed): every request of a handler registered under name N goes
\* to B + "/tools/" + N, N verbatim, B the configured mockServerUrl or
\* "http://localhost:3001".
C8_EndpointIsToolName ==
  \A c \in DOMAIN calls :
    LET k == calls[c] IN
    \A j \in 1..Len(Requests(k)) :
      Requests(k)[j].url = ExpectedBase \o "/tools/" \o registry[k.tool].name

\* The same statement restricted to index.ts, where it holds.
C8_IndexTsEndpointIsToolName == plugin = "index_ts" => C8_EndpointIsToolName

\* C9: in the tool catalog no two entries have the same name, and every
\* name listed in required is a key of that entry's properties; the same
\* holds of what is registered with the host.
C9_CatalogWellFormed ==
  LET WellFormed(ts) ==
        /\ \A i, j \in 1..Len(ts) : ts[i].name = ts[j].name => i = j
        /\ \A i \in 1..Len(ts) : \A q \in 1..Len(ts[i].required) :
             \E m \in 1..Len(ts[i].properties) :
               ts[i].properties[m] = ts[i].required[q]
  IN WellFormed(Catalog(plugin)) /\ WellFormed(registry)

\* C9 witness: the whole catalog is registered, with an entry that has
\* required names.
C9_Witness ==
  /\ regPc = "loaded"
  /\ \E i \in 1..Len(registry) : Len(registry[i].required) = 2

\* C10: register never fails, whatever the host configuration holds; it
\* calls registerTool once per catalog entry, in catalog order, with names
\* the one-element list of the entry's name; once it has returned, every
\* catalog tool is registered exactly once, and handler executions leave
\* the registry as it is.
C10_RegistersCatalogOnce ==
  /\ regPc # "failed"
  /\ Len(registry) = regIdx
  /\ regIdx <= Len(Catalog(plugin))
  /\ \A i \in 1..Len(registry) :
       /\ registry[i].name = Catalog(plugin)[i].name
       /\ registry[i].names = <<Catalog(plugin)[i].name>>
  /\ regPc = "unloaded" => registry = <<>>
  /\ regPc = "loaded" => Len(registry) = Len(Catalog(plugin))

\* C10 witness: loaded without a plugin configuration entry, a handler has
\* run, and the registry holds the catalog.
C10_Witness ==
  /\ regPc = "loaded"
  /\ hostConfig = Obj(<<>>)
  /\ Len(registry) = Len(Catalog(plugin))
  /\ \E c \in DOMAIN calls : calls[c].pc = "returned"

\* A 2xx response whose body does not decode: it cannot be read, or its text
\* is not JSON.
Undecodable(r) == ok(r) /\ ~IsJsonBody(r)

\* The entry callMockServer logs on success.
IsOkEntry(e) == e.ev = "log" /\ slice(e.msg, 14) = "[mock-call] OK"

\* C11: when the request cannot be completed, or a 2xx response's body is not
\* valid JSON, the handler ends thrown with the underlying failure, at no
\* point holds an envelope, logs no success entry and substitutes nothing
\* (no placeholder, no "Mock server error"); an envelope is returned only
\* for a 2xx response with a JSON body, and every call that has ended
\* without one has ended thrown.
C11_FailuresAreThrown ==
  \A c \in DOMAIN calls :
    LET k == calls[c]
        failed == \/ k.response = Rejected
                  \/ (Answered(k) /\ Undecodable(k.response))
    IN
    /\ failed =>
         /\ k.outcome.kind # "returned"
         /\ \A i \in 1..Len(k.effects) : ~IsOkEntry(k.effects[i])
         /\ Settled(k) =>
              /\ k.pc = "thrown"
              /\ k.outcome.kind = "thrown"
              /\ k.outcome.error.name \in {"TypeError", "SyntaxError"}
              /\ ~Contains(k.outcome.error.message, "(no body)")
              /\ ~Contains(k.outcome.error.message, "Mock server error")
    /\ k.outcome.kind = "returned" =>
         (Answered(k) /\ ok(k.response) /\ IsJsonBody(k.response))
    /\ (Settled(k) /\ k.pc # "idle" /\ k.outcome.kind # "returned") =>
         (k.pc = "thrown" /\ k.outcome.kind = "thrown")

\* C11 witness: a 200 response with an HTML body ended the call thrown with
\* the decode error, after the audit entry and nothing else from the proxy.
C11_Witness ==
  \E c \in DOMAIN calls :
    /\ calls[c].pc = "thrown"
    /\ calls[c].response = Http(200, "OK", "<html>busy</html>", TRUE)
    /\ calls[c].outcome.error.name = "SyntaxError"
    /\ Len(Requests(calls[c])) = 1

\* The audit entry callMockServer logs before the request.
IsPostEntry(e) == e.ev = "log" /\ slice(e.msg, 16) = "[mock-call] POST"

\* C13 (as claimed): in the info entry logged before the request, the text
\* of the request body is cut to a fixed size: whatever the size of the
\* body, the entry is no longer than its fixed prefix ("[mock-call] POST",
\* the endpoint, "body=") and the largest limit the plugin cuts a logged
\* text to.
C13_LoggedBodyIsBounded ==
  \A c \in DOMAIN calls :
    LET k == calls[c] IN
    \A i \in 1..Len(k.effects) :
      IsPostEntry(k.effects[i]) =>
        Len(k.effects[i].msg)
          <= Len("[mock-call] POST " \o k.endpoint \o " body=") + ArgsDumpLimit

\* What holds instead: the entry carries the request body whole.
C13_LoggedBodyIsWhole ==
  \A c \in DOMAIN calls :
    LET k == calls[c] IN
    \A i \in 1..Len(k.effects) :
      IsPostEntry(k.effects[i]) =>
        k.effects[i].msg
          = "[mock-call] POST " \o k.endpoint \o " body=" \o Requests(k)[1].body

\* The warning entries callMockServer logs on an error response.
FailedEntries(k) ==
  SelectSeq(k.effects,
            LAMBDA e : e.ev = "log" /\ e.level = "warn"
                         /\ slice(e.msg, 18) = "[mock-call] FAILED")

\* C14: when the response has a non-2xx status and its body cannot be read,
\* the call still ends thrown, with the plugin's own error whose message
\* carries the status code, the status text and "(no body)", never with the
\* read failure; it has logged exactly one FAILED warning, with the
\* endpoint, the status and "(no body)"; it has returned no envelope.
C14_UnreadableErrorBody ==
  \A c \in DOMAIN calls :
    LET k == calls[c] IN
    (Answered(k) /\ ~ok(k.response) /\ ~k.response.readable) =>
      /\ k.outcome.kind # "returned"
      /\ k.pc \in {"text", "thrown"}
      /\ k.pc = "text" => (k.outcome = NoOutcome /\ FailedEntries(k) = <<>>)
      /\ k.pc = "thrown" =>
           /\ k.outcome
                = Thrown(Err("Error",
                             "Mock server error: " \o ToString(k.response.status)
                               \o " " \o k.response.statusText \o " -- (no body)"))
           /\ FailedEntries(k)
                = << Warn("[mock-call] FAILED " \o k.endpoint \o " status="
                            \o ToString(k.response.status) \o " response=(no body)") >>
           /\ k.effects[Len(k.effects)] = FailedEntries(k)[1]

\* C14 witness: a 503 whose body could not be read.
C14_Witness ==
  \E c \in DOMAIN calls :
    /\ calls[c].pc = "thrown"
    /\ calls[c].response = Http(503, "Service Unavailable", "", FALSE)
    /\ calls[c].outcome.error.message
         = "Mock server error: 503 Service Unavailable -- (no body)"
    /\ Len(FailedEntries(calls[c])) = 1

---------------------------------------------------------------------------
(* Properties of two invocations (checked over the concurrent runs).       *)

\* C12: two invocations of the same handler (same base URL, same endpoint)
\* whose arguments carry the same parameters have issued identical
\* requests, and, when the fixture server gave both the same answer, have
\* ended with identical results: the same envelope or the same error;
\* whether the other call ran before or alongside makes no difference.
C12_SameCallSameResult ==
  \A c, d \in DOMAIN calls :
    LET k == calls[c]
        m == calls[d]
    IN
    (/\ c # d
     /\ k.pc # "idle" /\ m.pc # "idle"
     /\ k.tool = m.tool
     /\ ExpectedParams(k.args) = ExpectedParams(m.args))
    => /\ Requests(k) = Requests(m)
       /\ Len(Requests(k)) = 1
       /\ (Settled(k) /\ Settled(m) /\ k.response = m.response)
            => k.outcome = m.outcome

\* C12 witness: the same tool called in both conventions with the same
\* parameters, both answered {"messages": []}, both returned the same text.
C12_Witness ==
  /\ calls[1].pc = "returned" /\ calls[2].pc = "returned"
  /\ calls[1].tool = calls[2].tool
  /\ calls[1].args = <<Obj(<< <<"path", Str("a.md")>>, <<"from", Num(3)>> >>)>>
  /\ Len(calls[2].args) = 4
  /\ calls[1].response = calls[2].response
  /\ Requests(calls[1]) = Requests(calls[2])
  /\ calls[1].outcome = Returned(TextEnvelope("{\n  \"messages\": []\n}"))
  /\ calls[2].outcome = calls[1].outcome

\* The endpoint the source gives the handler of the i-th registered tool.
OwnEndpoint(i) ==
  IF plugin = "index_ts" THEN "/tools/" \o TOOLS[i].name ELSE TOOLS_p0[i].endpoint

\* What an invocation holds, told from its own tool, arguments and response
\* alone.
OwnRequestAndOutcome(k) ==
  /\ Requests(k) = << [method |-> "POST",
                       url |-> ExpectedBase \o OwnEndpoint(k.tool),
                       headers |-> << <<"Content-Type", "application/json">> >>,
                       body |-> JsonText(ExpectedParams(k.args))] >>
  /\ k.pc = "fetch" => (k.response = NoResponse /\ k.outcome = NoOutcome)
  /\ k.pc \in {"text", "json"} => (Answered(k) /\ k.outcome = NoOutcome)
  /\ k.pc = "text" => ~ok(k.response)
  /\ k.pc = "json" => ok(k.response)
  /\ k.pc = "returned" =>
       /\ Answered(k) /\ ok(k.response) /\ IsJsonBody(k.response)
       /\ k.outcome = Returned(TextEnvelope(IndentedOf(k.response.body)))
  /\ k.pc = "thrown" =>
       \/ k.response = Rejected /\ k.outcome.error.name = "TypeError"
       \/ /\ Answered(k) /\ Undecodable(k.response)
          /\ k.outcome.error.name \in {"SyntaxError", "TypeError"}
       \/ /\ Answered(k) /\ ~ok(k.response)
          /\ k.outcome
               = Thrown(Err("Error",
                            "Mock server error: " \o ToString(k.response.status)
                              \o " " \o k.response.statusText \o " -- "
                              \o (IF k.response.readable THEN k.response.body
                                  ELSE "(no body)")))

\* A step of one invocation leaves every other invocation as it was, and
\* no step of an invocation changes the plugin configuration or registry.
OneInvocationSteps ==
  \A c \in DOMAIN calls :
    calls'[c] # calls[c] =>
      /\ \A d \in DOMAIN calls \ {c} : calls'[d] = calls[d]
      /\ pluginConfig' = pluginConfig
      /\ registry' = registry
      /\ hostConfig' = hostConfig

\* C15: whatever the interleaving of two invocations at their awaits, at
\* every moment each invocation's request is the one its own tool and
\* arguments give, and its envelope or error the one the response to its
\* own request gives; every step belongs to one invocation and changes
\* nothing of the other, nor the configuration both read.
C15_InvocationsAreIsolated ==
  /\ [](\A c \in DOMAIN calls : calls[c].pc # "idle" => OwnRequestAndOutcome(calls[c]))
  /\ [][OneInvocationSteps]_vars

\* C15 witness: two invocations of different tools with different
\* parameters in flight at once, one reading an error body while the other
\* decodes JSON.
C15_Witness ==
  /\ calls[1].pc = "text" /\ calls[2].pc = "json"
  /\ calls[1].tool # calls[2].tool
  /\ ExpectedParams(calls[1].args) # ExpectedParams(calls[2].args)
  /\ calls[1].response = Http(500, "Internal Server Error", "db unavailable", TRUE)
  /\ calls[2].response = Http(200, "OK", "{\"messages\":[]}", TRUE)

===========================================================================
